---- MODULE Spec2Model ----
(***************************************************************************)
(* A model of mboot.c: unpack() splits an Intel boot image into the        *)
(* artifacts hdr, sig, cmdline.txt, parameter, bootstub, kernel and        *)
(* ramdisk.cpio.gz; pack() lays those artifacts out again into one image.  *)
(*                                                                         *)
(* A file is a byte string.  Kernels and ramdisks are hundreds of          *)
(* thousands of bytes long, so a byte string is kept as its runs of equal  *)
(* bytes: a sequence of [e |-> offset just past the run, b |-> byte value] *)
(* with e increasing and no two neighbours holding the same byte.  The     *)
(* encoding is exact: two byte strings are equal iff their encodings are.  *)
(***************************************************************************)
EXTENDS Integers, Sequences, FiniteSets, TLC

(***************************************************************************)
(* Byte strings                                                            *)
(***************************************************************************)
\* n bytes of value b.
Fill(n, b) == IF n <= 0 THEN <<>> ELSE <<[e |-> n, b |-> b]>>

BLen(s) == IF s = <<>> THEN 0 ELSE s[Len(s)].e

\* The index of the run of s that holds offset i (0 <= i < BLen(s)).
RunOf(s, i) ==
  CHOOSE k \in 1..Len(s) : s[k].e > i /\ (k = 1 \/ s[k - 1].e <= i)

\* The byte of s at offset i (i < BLen(s)).
At(s, i) == s[RunOf(s, i)].b

\* The first k bytes of s, or all of s if it has fewer.
Take(s, k) ==
  IF k <= 0 THEN <<>>
  ELSE IF k >= BLen(s) THEN s
  ELSE LET j == RunOf(s, k - 1)
       IN SubSeq(s, 1, j - 1) \o <<[e |-> k, b |-> s[j].b]>>

\* s without its first k bytes.
Drop(s, k) ==
  IF k <= 0 THEN s
  ELSE IF k >= BLen(s) THEN <<>>
  ELSE LET j == RunOf(s, k)
       IN SubSeq([i \in 1..Len(s) |-> [e |-> s[i].e - k, b |-> s[i].b]], j, Len(s))

\* The concatenation of two byte strings: only the runs that meet can hold
\* the same byte.
Cat(s, t) ==
  IF s = <<>> THEN t
  ELSE IF t = <<>> THEN s
  ELSE LET shifted == SubSeq([i \in 1..Len(t) |-> [e |-> t[i].e + BLen(s), b |-> t[i].b]],
                             1, Len(t))
       IN IF s[Len(s)].b = t[1].b
          THEN SubSeq(s, 1, Len(s) - 1) \o shifted
          ELSE s \o shifted

\* The concatenation of a sequence of byte strings.
RECURSIVE CatAll(_)
CatAll(q) == IF q = <<>> THEN <<>> ELSE Cat(CatAll(SubSeq(q, 1, Len(q) - 1)), q[Len(q)])

\* The bytes of s at offsets from .. from+n-1, as far as s has them.
Sub(s, from, n) == Take(Drop(s, from), n)

\* The byte string of an explicit sequence of byte values.
Bytes(q) == CatAll([i \in 1..Len(q) |-> Fill(1, q[i])])

\* memcpy(buf + off, data, BLen(data)) within a buffer that holds the range.
memcpy(buf, off, data) ==
  IF data = <<>> THEN buf
  ELSE Cat(Cat(Take(buf, off), data), Drop(buf, off + BLen(data)))

\* The offset of the first byte of s equal to c, or BLen(s) if there is none.
IndexOf(s, c) ==
  LET K == {k \in 1..Len(s) : s[k].b = c}
      k == CHOOSE k \in K : \A j \in K : k <= j
  IN IF K = {} THEN BLen(s) ELSE IF k = 1 THEN 0 ELSE s[k - 1].e

(***************************************************************************)
(* 32-bit little-endian fields                                             *)
(***************************************************************************)
\* The four bytes of v, least significant first (v < 2^31).
LE32(v) ==
  Bytes(<<v % 256, (v \div 256) % 256, (v \div 65536) % 256, (v \div 16777216) % 256>>)

\* *(uint32_t *)buffer on a little-endian build.  The model checker's integers are
\* 32-bit signed, so a value of 2^31 or more is returned as 2^31 - 1: the
\* program only compares the value with bounds far below that.
U32(s) ==
  IF At(s, 3) >= 128 THEN 2147483647
  ELSE At(s, 0) + 256 * At(s, 1) + 65536 * At(s, 2) + 16777216 * At(s, 3)

\* The four bytes of (value of s) + 1 in uint32_t arithmetic, by carry.
Inc32(s) ==
  LET b0 == At(s, 0)
      b1 == At(s, 1)
      b2 == At(s, 2)
      b3 == At(s, 3)
      c1 == IF b0 = 255 THEN 1 ELSE 0
      c2 == IF c1 = 1 /\ b1 = 255 THEN 1 ELSE 0
      c3 == IF c2 = 1 /\ b2 = 255 THEN 1 ELSE 0
  IN Bytes(<<(b0 + 1) % 256, (b1 + c1) % 256, (b2 + c2) % 256, (b3 + c3) % 256>>)

\* The length of run k of s.
RunLen(s, k) == s[k].e - (IF k = 1 THEN 0 ELSE s[k - 1].e)

\* Bit k of the XOR of all the bytes of s: the parity of the number of bytes
\* that have the bit set.  A run of even length adds nothing to it.
XorBit(s, k) ==
  Cardinality({i \in 1..Len(s) : RunLen(s, i) % 2 = 1 /\ (s[i].b \div (2 ^ k)) % 2 = 1}) % 2

\* The XOR of all the bytes of s.
XorAll(s) ==
  XorBit(s, 0) + 2 * XorBit(s, 1) + 4 * XorBit(s, 2) + 8 * XorBit(s, 3)
  + 16 * XorBit(s, 4) + 32 * XorBit(s, 5) + 64 * XorBit(s, 6) + 128 * XorBit(s, 7)

(***************************************************************************)
(* State                                                                   *)
(***************************************************************************)
VARIABLES
  image,                \* the file named by filename (boot.img), or NoFile
  dir,                  \* the artifacts in directory: name -> file or NoFile
  pc,                   \* where the running operation stands; "idle" between runs
  pos,                  \* ftell(f) of the stream unpack() reads
  hdr_probe,            \* what check_byte(f, 4, 1) returned at offset 0
  hdr_size,             \* unpack()'s locals
  sig_size,
  bootstub_size,
  kernel_size_buffer,
  ramdisk_size_buffer,
  bootimg,              \* the buffer pack() assembles the image in
  written,              \* the artifacts the current run of unpack() has written
  done,                 \* the runs finished so far: <<[op, status], ...>>
  orig,                 \* the image as the first run found it
  layout,               \* a summary of what the initial image was built from
  malloc0_null,         \* whether malloc(0) returned NULL in the last pack()
  libc,                 \* the C library of the build: what isalnum() returns
  garbage               \* the byte value uninitialised memory holds in this run

vars == <<image, dir, pc, pos, hdr_probe, hdr_size, sig_size, bootstub_size,
          kernel_size_buffer, ramdisk_size_buffer, written, bootimg,
          done, orig, layout, malloc0_null, libc, garbage>>

\* A file that does not exist: no byte string is encoded with an empty run.
NoFile == <<[e |-> 0, b |-> 0]>>

Artifacts == {"hdr", "sig", "cmdline.txt", "parameter", "bootstub", "kernel", "ramdisk.cpio.gz"}

required_file == <<"cmdline.txt", "parameter", "bootstub", "kernel", "ramdisk.cpio.gz">>

(***************************************************************************)
(* The C library                                                           *)
(***************************************************************************)
\* isalnum(c) is only specified to be nonzero for a letter or a digit.
\* "mask" returns the class bit (8, as glibc); "bool" returns 1 (as musl);
\* "table" returns the BSD ctype table's bit: 1 upper, 2 lower, 4 digit.
Libcs == {"mask", "bool", "table"}

isalnum(c) ==
  LET upper == c \in 65..90
      lower == c \in 97..122
      digit == c \in 48..57
  IN IF ~(upper \/ lower \/ digit) THEN 0
     ELSE IF libc = "mask" THEN 8
     ELSE IF libc = "bool" THEN 1
     ELSE IF upper THEN 1 ELSE IF lower THEN 2 ELSE 4

\* fseek(f, d, SEEK_CUR): fails, leaving the position, if it would be negative.
fseek(p, d) == IF p + d < 0 THEN p ELSE p + d

\* fread(buffer, size, 1, f) into an uninitialised buffer of size bytes: the
\* buffer afterwards, and the position, which moves by the bytes read.
fread(file, p, size) ==
  LET got == Sub(file, p, size)
  IN [buf |-> Cat(got, Fill(size - BLen(got), garbage)), pos |-> p + BLen(got)]

(***************************************************************************)
(* check_byte, write_buffer, write_string                                  *)
(***************************************************************************)
check_byte(file, p, size, min) ==
  LET skip  == fread(file, p, 1)
      isNul == size > 1 /\ At(skip.buf, 0) = 0
      size1 == IF isNul THEN size - 1 ELSE size
      p1    == IF size > 1
               THEN (IF isNul THEN skip.pos ELSE fseek(skip.pos, -1))
               ELSE p
      tmp   == fread(file, p1, size1)
      bytes == isalnum(At(tmp.buf, 0))
  IN [ret |-> IF bytes > min /\ bytes < size THEN 1 ELSE 0,
      pos |-> fseek(tmp.pos, -size)]

\* write_buffer(f, size, name): the artifact's bytes and the new position.
write_buffer(file, p, size) ==
  LET r == fread(file, p, size)
  IN [data |-> r.buf, pos |-> r.pos]

\* sizeof(char *[1024]) on an LP64 build
cmdline_sizeof == 8192

\* The whole 1024-byte region written, as write_buffer() would.
write_string_verbatim(string) == Take(string, 1024)

\* write_string(string, name): fwrite(string, strlen(string), 1, t).  When the
\* array holds no NUL strlen() runs past it; the artifact is then at least
\* the whole array.
write_string(string) == Take(string, IndexOf(string, 0))

(***************************************************************************)
(* unpack()                                                                *)
(***************************************************************************)
\* A last delta that is off by four.
sig_deltas_off == <<0, 480, 248, 300>>

sig_deltas == <<0, 480, 248, 296>>

\* The loop over sig_deltas from index i on: the position it leaves.
RECURSIVE sig_loop(_, _, _)
sig_loop(file, p, i) ==
  IF i > Len(sig_deltas) THEN p
  ELSE LET cb == check_byte(file, fseek(p, sig_deltas[i]), 4, 1)
       IN IF cb.ret = 1 THEN cb.pos ELSE sig_loop(file, cb.pos, i + 1)

\* The lower bound taken as exclusive.
kernel_size_exclusive(kernel_size) == ~(kernel_size <= 500000 \/ kernel_size > 15000000)

kernel_size_ok(kernel_size) == ~(kernel_size < 500000 \/ kernel_size > 15000000)

ramdisk_size_ok(ramdisk_size) == ~(ramdisk_size < 10000 \/ ramdisk_size > 300000000)

\* The test of the probe without its negation.
header_present_unnegated(probe) == probe # 0

\* Whether the header probe's result makes unpack() emit the 512-byte header.
header_present(probe) == probe = 0

\* The two size fields themselves emitted as the parameter.
parameter_read_fields(file, p) == [data |-> Sub(file, p - 8, 8), pos |-> p + 8]

\* write_buffer(f, 8, "parameter") with the stream just past the two size fields.
parameter_read(file, p) == write_buffer(file, p, 8)

Finish(op, status) ==
  /\ pc' = "idle"
  /\ done' = Append(done, [op |-> op, status |-> status])

ResetLocals ==
  /\ pos' = 0
  /\ hdr_probe' = 0
  /\ hdr_size' = 0
  /\ sig_size' = 0
  /\ bootstub_size' = 0
  /\ kernel_size_buffer' = <<>>
  /\ ramdisk_size_buffer' = <<>>
  /\ written' = {}

MaxRuns == 2

\* fopen(filename, "rb"), lines 101-105
UnpackOpen ==
  /\ pc = "idle"
  /\ Len(done) < MaxRuns
  /\ ResetLocals
  /\ IF image = NoFile
     THEN Finish("unpack", 1)
     ELSE pc' = "u_hdr" /\ done' = done
  /\ UNCHANGED <<image, dir, bootimg, orig, layout, malloc0_null, libc, garbage>>

\* lines 107-112
UnpackHeader ==
  /\ pc = "u_hdr"
  /\ LET cb == check_byte(image, pos, 4, 1)
         wb == write_buffer(image, cb.pos, 512)
     IN /\ hdr_probe' = cb.ret
        /\ IF header_present(cb.ret)
           THEN /\ dir' = [dir EXCEPT !["hdr"] = wb.data]
                /\ written' = written \cup {"hdr"}
                /\ pos' = wb.pos
                /\ hdr_size' = wb.pos
           ELSE /\ pos' = cb.pos
                /\ hdr_size' = cb.pos
                /\ UNCHANGED <<dir, written>>
  /\ pc' = "u_sig"
  /\ UNCHANGED <<image, sig_size, bootstub_size, kernel_size_buffer,
                 ramdisk_size_buffer, done, bootimg, orig, layout, malloc0_null, libc, garbage>>

\* lines 114-128
UnpackSignature ==
  /\ pc = "u_sig"
  /\ LET p  == sig_loop(image, pos, 1)
         sz == p - hdr_size
         wb == write_buffer(image, fseek(p, -sz), sz)
     IN /\ sig_size' = sz
        /\ IF sz > 0
           THEN /\ dir' = [dir EXCEPT !["sig"] = wb.data]
                /\ written' = written \cup {"sig"}
                /\ pos' = wb.pos
           ELSE /\ pos' = p
                /\ UNCHANGED <<dir, written>>
  /\ pc' = "u_cmdline"
  /\ UNCHANGED <<image, hdr_probe, hdr_size, bootstub_size, kernel_size_buffer,
                 ramdisk_size_buffer, done, bootimg, orig, layout, malloc0_null, libc, garbage>>

\* lines 130-133
UnpackCmdline ==
  /\ pc = "u_cmdline"
  /\ LET r == fread(image, pos, 1024)
         cmdline == Cat(r.buf, Fill(cmdline_sizeof - 1024, garbage))
     IN /\ dir' = [dir EXCEPT !["cmdline.txt"] = write_string(cmdline)]
        /\ pos' = r.pos
  /\ written' = written \cup {"cmdline.txt"}
  /\ pc' = "u_param"
  /\ UNCHANGED <<image, hdr_probe, hdr_size, sig_size, bootstub_size, kernel_size_buffer,
                 ramdisk_size_buffer, done, bootimg, orig, layout, malloc0_null, libc, garbage>>

\* lines 135-141
UnpackParameter ==
  /\ pc = "u_param"
  /\ LET k  == fread(image, pos, 4)
         r  == fread(image, k.pos, 4)
         wb == parameter_read(image, r.pos)
     IN /\ kernel_size_buffer' = k.buf
        /\ ramdisk_size_buffer' = r.buf
        /\ dir' = [dir EXCEPT !["parameter"] = wb.data]
        /\ pos' = fseek(wb.pos, 3072 - 16)
  /\ written' = written \cup {"parameter"}
  /\ pc' = "u_bootstub"
  /\ UNCHANGED <<image, hdr_probe, hdr_size, sig_size, bootstub_size,
                 done, bootimg, orig, layout, malloc0_null, libc, garbage>>

\* lines 143-151
UnpackBootstub ==
  /\ pc = "u_bootstub"
  /\ LET p1 == fseek(pos, 4096)
         cb == check_byte(image, p1, 2, 0)
         p2 == IF cb.ret = 1 THEN fseek(cb.pos, 4096) ELSE cb.pos
         sz == p2 - hdr_size - sig_size - 4096
         wb == write_buffer(image, fseek(p2, -sz), sz)
     IN /\ bootstub_size' = sz
        /\ dir' = [dir EXCEPT !["bootstub"] = wb.data]
        /\ pos' = wb.pos
  /\ written' = written \cup {"bootstub"}
  /\ pc' = "u_kernel"
  /\ UNCHANGED <<image, hdr_probe, hdr_size, sig_size, kernel_size_buffer,
                 ramdisk_size_buffer, done, bootimg, orig, layout, malloc0_null, libc, garbage>>

\* lines 153-159
UnpackKernel ==
  /\ pc = "u_kernel"
  /\ LET kernel_size == U32(kernel_size_buffer)
         wb == write_buffer(image, pos, kernel_size)
     IN IF kernel_size_ok(kernel_size)
        THEN /\ dir' = [dir EXCEPT !["kernel"] = wb.data]
             /\ written' = written \cup {"kernel"}
             /\ pos' = wb.pos
             /\ pc' = "u_ramdisk"
             /\ done' = done
        ELSE /\ Finish("unpack", 1)
             /\ UNCHANGED <<dir, written, pos>>
  /\ UNCHANGED <<image, hdr_probe, hdr_size, sig_size, bootstub_size, kernel_size_buffer,
                 ramdisk_size_buffer, bootimg, orig, layout, malloc0_null, libc, garbage>>

\* lines 161-170
UnpackRamdisk ==
  /\ pc = "u_ramdisk"
  /\ LET ramdisk_size == U32(ramdisk_size_buffer)
         wb == write_buffer(image, pos, ramdisk_size)
     IN IF ramdisk_size_ok(ramdisk_size)
        THEN /\ dir' = [dir EXCEPT !["ramdisk.cpio.gz"] = wb.data]
             /\ written' = written \cup {"ramdisk.cpio.gz"}
             /\ pos' = wb.pos
             /\ Finish("unpack", 0)
        ELSE /\ Finish("unpack", 1)
             /\ UNCHANGED <<dir, written, pos>>
  /\ UNCHANGED <<image, hdr_probe, hdr_size, sig_size, bootstub_size, kernel_size_buffer,
                 ramdisk_size_buffer, bootimg, orig, layout, malloc0_null, libc, garbage>>

(***************************************************************************)
(* pack()                                                                  *)
(***************************************************************************)
\* read_file(name, &size): the data pointer is null when the file cannot be
\* opened, and when the file is empty and malloc(0) returns NULL.
read_file(name, null0) ==
  LET f == dir[name]
  IN [data |-> IF f = NoFile THEN <<>> ELSE f,
      size |-> IF f = NoFile THEN 0 ELSE BLen(f),
      ok   |-> f # NoFile /\ ~(f = <<>> /\ null0)]

\* line 225
padding_size(img_size) ==
  IF 512 - (img_size % 512) < 512 THEN 512 - (img_size % 512) ELSE 0

signed_marker == Bytes(<<189, 2, 189, 2, 189, 18, 189, 18>>)

\* The image type incremented whether or not there is a signature.
add_signature_always(buf, hdr, sig) ==
  LET b == IF hdr.ok THEN memcpy(buf, 52, Inc32(Sub(buf, 52, 4))) ELSE buf
  IN IF sig.ok
     THEN memcpy(memcpy(b, hdr.size, sig.data),
                 hdr.size + sig.size + 1024 + 16, signed_marker)
     ELSE b

\* lines 234-244: the signature, the marker of a signed image, or the image type
add_signature(buf, hdr, sig) ==
  IF sig.ok
  THEN memcpy(memcpy(buf, hdr.size, sig.data),
              hdr.size + sig.size + 1024 + 16, signed_marker)
  ELSE IF hdr.ok
       THEN memcpy(buf, 52, Inc32(Sub(buf, 52, 4)))
       ELSE buf

\* The parameter copied over the two sizes instead of after them.
add_block_over(buf, base, cmdline, parameter, kernel, ramdisk) ==
  LET b1 == memcpy(buf, base, cmdline.data)
      b2 == memcpy(b1, base + 1024, LE32(kernel.size))
      b3 == memcpy(b2, base + 1024 + 4, LE32(ramdisk.size))
  IN memcpy(b3, base + 1024, parameter.data)

\* lines 246-250: the cmdline, the two sizes and the parameter
add_block(buf, base, cmdline, parameter, kernel, ramdisk) ==
  LET b1 == memcpy(buf, base, cmdline.data)
      b2 == memcpy(b1, base + 1024, LE32(kernel.size))
      b3 == memcpy(b2, base + 1024 + 4, LE32(ramdisk.size))
  IN memcpy(b3, base + 1024 + 8, parameter.data)

\* The kernel placed as if the bootstub were always 4096 bytes.
add_payload_fixed(buf, base, bootstub, kernel, ramdisk) ==
  LET b1 == memcpy(buf, base + 4096, bootstub.data)
      b2 == memcpy(b1, base + 4096 + 4096, kernel.data)
  IN memcpy(b2, base + 4096 + bootstub.size + kernel.size, ramdisk.data)

\* lines 252-255: bootstub, kernel and ramdisk
add_payload(buf, base, bootstub, kernel, ramdisk) ==
  LET b1 == memcpy(buf, base + 4096, bootstub.data)
      b2 == memcpy(b1, base + 4096 + bootstub.size, kernel.data)
  IN memcpy(b2, base + 4096 + bootstub.size + kernel.size, ramdisk.data)

\* line 262
sectors(total) == total \div 512 - 1

\* lines 265-271
xor_checksum(buf) ==
  LET hdr_calc == memcpy(Sub(buf, 0, 56), 7, Bytes(<<0>>))
  IN XorAll(hdr_calc)

\* The checksum computed before the sector count is stored.
update_header_early(buf, total) ==
  LET x == xor_checksum(buf)
  IN memcpy(memcpy(buf, 48, LE32(sectors(total))), 7, Bytes(<<x>>))

\* lines 260-273
update_header(buf, total) ==
  LET b1 == memcpy(buf, 48, LE32(sectors(total)))
  IN memcpy(b1, 7, Bytes(<<xor_checksum(b1)>>))

\* line 224
img_size_of(hdr, sig, bootstub, kernel, ramdisk) ==
  hdr.size + sig.size + 4096 + bootstub.size + kernel.size + ramdisk.size

\* lines 199-221: the artifacts are read and the image is opened
PackRead ==
  /\ pc = "idle"
  /\ Len(done) < MaxRuns
  /\ ResetLocals
  /\ \E null0 \in (IF \E a \in Artifacts : dir[a] = <<>> THEN BOOLEAN ELSE {FALSE}) :
       /\ malloc0_null' = null0
       /\ IF \A i \in 1..5 : read_file(required_file[i], null0).ok
          THEN pc' = "p_alloc" /\ done' = done
          ELSE Finish("pack", 1)
  /\ UNCHANGED <<image, dir, bootimg, orig, layout, libc, garbage>>

PackUnchanged ==
  UNCHANGED <<dir, pos, hdr_probe, hdr_size, sig_size, bootstub_size, kernel_size_buffer,
              ramdisk_size_buffer, written, orig, layout, malloc0_null, libc, garbage>>

\* lines 223-244: the buffer, the header and the signature
PackAlloc ==
  /\ pc = "p_alloc"
  /\ LET hdr == read_file("hdr", malloc0_null)
         sig == read_file("sig", malloc0_null)
         img_size == img_size_of(hdr, sig, read_file("bootstub", malloc0_null),
                                 read_file("kernel", malloc0_null),
                                 read_file("ramdisk.cpio.gz", malloc0_null))
         b0 == Fill(img_size + padding_size(img_size), garbage)
         b1 == IF hdr.ok THEN memcpy(b0, 0, hdr.data) ELSE b0
     IN bootimg' = add_signature(b1, hdr, sig)
  /\ pc' = "p_block"
  /\ UNCHANGED <<image, done>>
  /\ PackUnchanged

\* lines 246-250
PackBlock ==
  /\ pc = "p_block"
  /\ bootimg' = add_block(bootimg,
                          read_file("hdr", malloc0_null).size
                            + read_file("sig", malloc0_null).size,
                          read_file("cmdline.txt", malloc0_null),
                          read_file("parameter", malloc0_null),
                          read_file("kernel", malloc0_null),
                          read_file("ramdisk.cpio.gz", malloc0_null))
  /\ pc' = "p_payload"
  /\ UNCHANGED <<image, done>>
  /\ PackUnchanged

\* lines 252-258: bootstub, kernel, ramdisk and the trailing padding
PackPayload ==
  /\ pc = "p_payload"
  /\ LET hdr == read_file("hdr", malloc0_null)
         sig == read_file("sig", malloc0_null)
         bootstub == read_file("bootstub", malloc0_null)
         kernel == read_file("kernel", malloc0_null)
         ramdisk == read_file("ramdisk.cpio.gz", malloc0_null)
         img_size == img_size_of(hdr, sig, bootstub, kernel, ramdisk)
         b == add_payload(bootimg, hdr.size + sig.size, bootstub, kernel, ramdisk)
     IN bootimg' = memcpy(b, img_size, Fill(padding_size(img_size), 255))
  /\ pc' = "p_write"
  /\ UNCHANGED <<image, done>>
  /\ PackUnchanged

\* lines 260-278: the header's sector count and checksum, and the write
PackWrite ==
  /\ pc = "p_write"
  /\ image' = IF read_file("hdr", malloc0_null).ok
              THEN update_header(bootimg, BLen(bootimg))
              ELSE bootimg
  /\ bootimg' = <<>>
  /\ Finish("pack", 0)
  /\ PackUnchanged

(***************************************************************************)
(* The images and directories the program is run on                        *)
(***************************************************************************)
\* A 512-byte header: "$OS$", version, checksum byte, sector count at 48 and
\* image type at 52.
Header(imgtype) ==
  CatAll(<<Bytes(<<36, 79, 83, 36, 0, 0, 1, 0>>), Fill(40, 17), LE32(0),
           imgtype, Fill(456, 0)>>)

ImgTypes == {Bytes(<<0, 0, 0, 0>>), Bytes(<<255, 0, 0, 0>>), Bytes(<<255, 255, 255, 255>>)}

Signature(n) == Fill(n, 231)

\* A 1024-byte cmdline region: len text bytes from first on, then NULs.
CmdRegion(first, len) ==
  CatAll(<<Fill(IF len > 0 THEN 1 ELSE 0, first), Fill(len - 1, 120), Fill(1024 - len, 0)>>)

ParamBytes == Bytes(<<33, 34, 35, 36, 37, 38, 39, 40>>)

\* The 3056 bytes between the parameter and the bootstub.
Filler(signed) ==
  IF signed THEN Cat(signed_marker, Fill(3048, 0)) ELSE Fill(3056, 0)

\* A bootstub of 4096 bytes, or of 8192 whose byte 4096 is mid.
Bootstub(len, mid) ==
  IF len <= 4096 THEN Fill(len, 181)
  ELSE CatAll(<<Fill(4096, 181), Fill(1, mid), Fill(len - 4097, 182)>>)

Kernel(len, first) == Cat(Fill(1, first), Fill(len - 1, 75))

Ramdisk(len) == Cat(Bytes(<<31, 139>>), Fill(len - 2, 82))

\* The number of bytes a region of the image holds for a size field of v.
RegionLen(v, dflt) == IF v \in 9000..300000001 THEN v ELSE dflt

ImageOf(L) ==
  LET body == CatAll(<<L.hdr, L.sig, L.cmd, L.kf, L.rf, ParamBytes,
                       Filler(L.sig # <<>>), L.bs, L.kern, L.rd>>)
      full == Cat(body, Fill((512 - (BLen(body) % 512)) % 512, 255))
  IN IF L.cut < 0 THEN full ELSE Take(full, L.cut)

Layout(hdr, sig, cmd, bs, kfirst, kf, rf, cut) ==
  [hdr |-> hdr, sig |-> Signature(sig), cmd |-> cmd, kf |-> kf, rf |-> rf,
   bs |-> bs, kern |-> Kernel(RegionLen(U32(kf), 500000), kfirst),
   rd |-> Ramdisk(RegionLen(U32(rf), 10000)), cut |-> cut]

\* What an image was built from: the sizes of its regions, the length of the
\* text in its cmdline region, and where it was cut (-1: nowhere).
Summary(L) ==
  [hdr |-> BLen(L.hdr), sig |-> BLen(L.sig), text |-> IndexOf(L.cmd, 0),
   kf |-> U32(L.kf), rf |-> U32(L.rf), bootstub |-> BLen(L.bs),
   kernel |-> BLen(L.kern), ramdisk |-> BLen(L.rd), cut |-> L.cut]

H0 == Header(Bytes(<<0, 0, 0, 0>>))

TextC == CmdRegion(99, 30)

SizeFields ==
  {<<LE32(k), LE32(10000)>> : k \in {499999, 500000, 15000000, 15000001}}
  \cup {<<LE32(500000), LE32(r)>> : r \in {9999, 300000000, 300000001}}
  \cup {<<Bytes(<<0, 0, 0, 128>>), LE32(10000)>>, <<LE32(500000), Bytes(<<16, 39, 0, 255>>)>>}

Cuts == {0, 1, 3, 4, 100, 511, 512, 514, 516, 995, 1536, 1540, 2020, 2030, 6000, 10000}

Layouts ==
  {Layout(h, s, c, Bootstub(4096, 0), 234, LE32(500000), LE32(10000), -1) :
     h \in {<<>>, H0}, s \in {0, 480, 728, 1024},
     c \in {TextC, CmdRegion(67, 30), CmdRegion(99, 1024), CmdRegion(0, 0)}}
  \cup {Layout(H0, 480, TextC, b, k, LE32(500000), LE32(10000), -1) :
     b \in {Bootstub(4096, 0), Bootstub(8192, 85), Bootstub(8192, 181)}, k \in {234, 77}}
  \cup {Layout(H0, 480, TextC, Bootstub(4096, 0), 234, f[1], f[2], -1) : f \in SizeFields}
  \cup {Layout(H0, 480, TextC, Bootstub(4096, 0), 234, LE32(500000), LE32(10000), c) :
     c \in Cuts}
  \cup {Layout(<<>>, 0, TextC, Bootstub(4096, 0), 234, LE32(500000), LE32(10000), c) :
     c \in {2, 3, 4, 1030}}

NoDir == [a \in Artifacts |-> NoFile]

Dir(hdr, sig, cmdline, parameter, bootstub, kernel, ramdisk) ==
  [a \in Artifacts |->
     CASE a = "hdr" -> hdr
       [] a = "sig" -> sig
       [] a = "cmdline.txt" -> cmdline
       [] a = "parameter" -> parameter
       [] a = "bootstub" -> bootstub
       [] a = "kernel" -> kernel
       [] a = "ramdisk.cpio.gz" -> ramdisk]

Dirs ==
  {Dir(h, s, c, p, Bootstub(4096, 0), Kernel(500000, 234), Ramdisk(10000)) :
     h \in {NoFile, Fill(40, 17)} \cup {Header(t) : t \in ImgTypes},
     s \in {NoFile, Signature(480)},
     c \in {Fill(30, 120), Cat(Fill(1030, 120), Fill(70, 121)), <<>>},
     p \in {ParamBytes, Cat(ParamBytes, signed_marker), NoFile}}
  \cup
  {Dir(h, s, Fill(30, 120), ParamBytes, b, Kernel(k, 234), Ramdisk(r)) :
     h \in {NoFile, H0}, s \in {NoFile, Signature(480)},
     b \in {Bootstub(4096, 0), Bootstub(8192, 85), Bootstub(100, 0)},
     k \in {500000, 15000000}, r \in {10000, 10464, 300000000}}

GarbageBytes == {0, 165}

Init ==
  /\ \/ \E L \in Layouts : layout = Summary(L) /\ image = ImageOf(L) /\ dir = NoDir
     \/ \E d \in Dirs : layout = [cut |-> -2] /\ image = NoFile /\ dir = d
  /\ orig = image
  /\ pc = "idle"
  /\ pos = 0
  /\ hdr_probe = 0
  /\ hdr_size = 0
  /\ sig_size = 0
  /\ bootstub_size = 0
  /\ kernel_size_buffer = <<>>
  /\ ramdisk_size_buffer = <<>>
  /\ written = {}
  /\ bootimg = <<>>
  /\ done = <<>>
  /\ malloc0_null = FALSE
  /\ libc \in Libcs
  /\ garbage \in GarbageBytes

Next ==
  \/ UnpackOpen
  \/ UnpackHeader
  \/ UnpackSignature
  \/ UnpackCmdline
  \/ UnpackParameter
  \/ UnpackBootstub
  \/ UnpackKernel
  \/ UnpackRamdisk
  \/ PackRead
  \/ PackAlloc
  \/ PackBlock
  \/ PackPayload
  \/ PackWrite

Spec == Init /\ [][Next]_vars

(***************************************************************************)
(* Properties                                                              *)
(***************************************************************************)
\* The last run has finished, and it was op.
Ran(op) == pc = "idle" /\ done # <<>> /\ done[Len(done)].op = op

Status == done[Len(done)].status

\* unpack() has read the two size fields in the current or last run.
FieldsRead == kernel_size_buffer # <<>>

\* The offset of the cmdline region in the stream unpack() reads.
cmdline_start == hdr_size + sig_size

\* The artifacts pack() read, as sizes: 0 for a header or signature that is absent.
HdrSize == IF dir["hdr"] = NoFile THEN 0 ELSE BLen(dir["hdr"])

SigSize == IF dir["sig"] = NoFile THEN 0 ELSE BLen(dir["sig"])

Packed == Ran("pack") /\ Status = 0

\* C2: a kernel-size field outside [500000, 15000000] makes unpack() return 1
\* having written neither kernel nor ramdisk; a ramdisk-size field outside
\* [10000, 300000000], with the kernel size in range, makes it return 1 with
\* no ramdisk written; sizes in range, the four bounds included, are accepted.
C2_SizeRanges ==
  (Ran("unpack") /\ FieldsRead) =>
    LET k == U32(kernel_size_buffer)
        r == U32(ramdisk_size_buffer)
        kIn == k >= 500000 /\ k <= 15000000
        rIn == r >= 10000 /\ r <= 300000000
    IN /\ ~kIn => (Status = 1 /\ "kernel" \notin written /\ "ramdisk.cpio.gz" \notin written)
       /\ (kIn /\ ~rIn) => (Status = 1 /\ "kernel" \in written
                             /\ "ramdisk.cpio.gz" \notin written)
       /\ (kIn /\ rIn) => (Status = 0 /\ "kernel" \in written
                            /\ "ramdisk.cpio.gz" \in written)
       /\ (Len(done) = 1 /\ "kernel" \notin written) => dir["kernel"] = NoFile
       /\ (Len(done) = 1 /\ "ramdisk.cpio.gz" \notin written) => dir["ramdisk.cpio.gz"] = NoFile

C2_Witness ==
  /\ Ran("unpack") /\ FieldsRead
  /\ U32(kernel_size_buffer) = 15000001
  /\ Status = 1
  /\ written = {"hdr", "sig", "cmdline.txt", "parameter", "bootstub"}

\* C3: in the image pack() writes the kernel starts at header + signature +
\* 4096 + bootstub size, the ramdisk right after the kernel, and after the
\* ramdisk come 0 to 511 bytes of 0xFF that make the length a multiple of 512.
C3_Layout ==
  Packed =>
    LET K == BLen(dir["kernel"])
        R == BLen(dir["ramdisk.cpio.gz"])
        at == HdrSize + SigSize + 4096 + BLen(dir["bootstub"])
        pad == BLen(image) - (at + K + R)
    IN (K >= 500000 /\ K <= 15000000 /\ R >= 10000 /\ R <= 300000000) =>
         /\ Sub(image, at, K) = dir["kernel"]
         /\ Sub(image, at + K, R) = dir["ramdisk.cpio.gz"]
         /\ pad \in 0..511
         /\ Drop(image, at + K + R) = Fill(pad, 255)
         /\ BLen(image) % 512 = 0

C3_Witness ==
  /\ Packed
  /\ dir["hdr"] # NoFile /\ dir["sig"] # NoFile
  /\ BLen(dir["bootstub"]) = 8192
  /\ BLen(dir["kernel"]) = 15000000
  /\ BLen(dir["ramdisk.cpio.gz"]) = 300000000

\* C4: the image pack() writes holds the kernel artifact's length at header +
\* signature + 1024 and the ramdisk artifact's at + 1028, whatever cmdline.txt
\* and parameter hold; the kernel and ramdisk artifacts unpack() writes are as
\* long as the size fields it read, which are the stream's bytes at cmdline
\* start + 1024 and + 1028.
C4_SizesAgree ==
  /\ Packed =>
       /\ Sub(image, HdrSize + SigSize + 1024, 4) = LE32(BLen(dir["kernel"]))
       /\ Sub(image, HdrSize + SigSize + 1028, 4) = LE32(BLen(dir["ramdisk.cpio.gz"]))
  /\ (FieldsRead /\ BLen(image) >= cmdline_start + 1032) =>
       /\ kernel_size_buffer = Sub(image, cmdline_start + 1024, 4)
       /\ ramdisk_size_buffer = Sub(image, cmdline_start + 1028, 4)
  /\ (FieldsRead /\ "kernel" \in written) =>
       BLen(dir["kernel"]) = U32(kernel_size_buffer)
  /\ (FieldsRead /\ "ramdisk.cpio.gz" \in written) =>
       BLen(dir["ramdisk.cpio.gz"]) = U32(ramdisk_size_buffer)

C4_Witness ==
  /\ Packed
  /\ BLen(dir["cmdline.txt"]) > 1024
  /\ BLen(dir["parameter"]) > 8
  /\ Sub(image, HdrSize + SigSize + 1024, 4) = LE32(500000)

\* The cmdline block of an image without the marker of a signed image, at
\* offsets 1040 to 1047: what cmdline.txt and parameter put there, or memory
\* that was never written.
UnsignedAt1040 ==
  Sub(memcpy(memcpy(Fill(4096, garbage), 0, dir["cmdline.txt"]), 1032, dir["parameter"]),
      1040, 8)

\* C5: with a header and no signature the image type at offset 52 of the image
\* is the hdr artifact's plus one (as a 32-bit value) and the marker of a
\* signed image is not written at header + 1040; with a signature the image
\* type is the hdr artifact's.
C5_ImageType ==
  (Packed /\ dir["hdr"] # NoFile /\ BLen(dir["hdr"]) >= 56) =>
    IF dir["sig"] = NoFile
    THEN /\ Sub(image, 52, 4) = Inc32(Sub(dir["hdr"], 52, 4))
         /\ Sub(image, HdrSize + 1040, 8) = UnsignedAt1040
    ELSE Sub(image, 52, 4) = Sub(dir["hdr"], 52, 4)

C5_Witness ==
  /\ Packed
  /\ dir["hdr"] # NoFile /\ dir["sig"] = NoFile
  /\ Sub(dir["hdr"], 52, 4) = Bytes(<<255, 0, 0, 0>>)
  /\ Sub(image, 52, 4) = Bytes(<<0, 1, 0, 0>>)
  /\ Sub(image, HdrSize + 1040, 8) = Fill(8, garbage)

\* Bit k of the XOR of the first 56 bytes of s, byte 7 taken as z when z >= 0.
HeaderXorBit(s, k, z) ==
  Cardinality({i \in 0..55 :
     ((IF i = 7 /\ z >= 0 THEN z ELSE At(s, i)) \div (2 ^ k)) % 2 = 1}) % 2

HeaderXor(s, z) ==
  HeaderXorBit(s, 0, z) + 2 * HeaderXorBit(s, 1, z) + 4 * HeaderXorBit(s, 2, z)
  + 8 * HeaderXorBit(s, 3, z) + 16 * HeaderXorBit(s, 4, z) + 32 * HeaderXorBit(s, 5, z)
  + 64 * HeaderXorBit(s, 6, z) + 128 * HeaderXorBit(s, 7, z)

\* C6: with a header artifact, offset 48 of the image holds its length / 512
\* - 1, byte 7 is the XOR of the image's first 56 bytes with byte 7 taken as
\* zero, and the XOR of all 56 bytes is 0.
C6_SectorsAndChecksum ==
  (Packed /\ dir["hdr"] # NoFile) =>
    /\ Sub(image, 48, 4) = LE32(BLen(image) \div 512 - 1)
    /\ At(image, 7) = HeaderXor(image, 0)
    /\ HeaderXor(image, -1) = 0

C6_Witness ==
  /\ Packed
  /\ dir["hdr"] # NoFile
  /\ At(image, 7) # 0
  /\ Sub(image, 48, 4) # Sub(dir["hdr"], 48, 4)
  /\ Sub(image, 52, 4) # Sub(dir["hdr"], 52, 4)

\* The stream holds the whole 1024-byte cmdline region.
HasCmdline == BLen(image) >= cmdline_start + 1024

\* C7 as stated: cmdline.txt is 1024 bytes long and equal to the 1024 stream
\* bytes that follow the signature region, NUL padding included.
C7_Verbatim ==
  (pc = "u_param" /\ HasCmdline) =>
    /\ BLen(dir["cmdline.txt"]) = 1024
    /\ dir["cmdline.txt"] = Sub(image, cmdline_start, 1024)

\* C7: unpack() reads exactly 1024 bytes as the cmdline region and writes to
\* cmdline.txt the bytes of the region that precede its first NUL, without the
\* NUL padding, whenever the stream holds the region and the region has a NUL.
C7_UpToNul ==
  (pc = "u_param" /\ HasCmdline) =>
    LET region == Sub(image, cmdline_start, 1024)
    IN /\ pos = cmdline_start + 1024
       /\ "cmdline.txt" \in written
       /\ IndexOf(region, 0) < 1024 =>
            /\ dir["cmdline.txt"] = Take(region, IndexOf(region, 0))
            /\ BLen(dir["cmdline.txt"]) < 1024

C7_Witness ==
  /\ pc = "u_param" /\ HasCmdline
  /\ Sub(image, cmdline_start, 1024) = TextC
  /\ dir["cmdline.txt"] = Take(TextC, 30)

\* The stream holds the cmdline region, the two size fields and the eight
\* bytes after them.
HasParameter == BLen(image) >= cmdline_start + 1040

\* C8 as stated: the parameter artifact is the two size fields, the stream
\* bytes at cmdline start + 1024 to + 1031, and the stream is then at cmdline
\* start + 4096.
C8_SizeFields ==
  (pc = "u_bootstub" /\ HasParameter) =>
    /\ BLen(dir["parameter"]) = 8
    /\ dir["parameter"] = Sub(image, cmdline_start + 1024, 8)
    /\ pos = cmdline_start + 4096

\* C8: the parameter artifact is 8 bytes long and holds the eight stream bytes
\* that follow the two size fields, those at cmdline start + 1032 to + 1039;
\* the stream is then at cmdline start + 4096.
C8_AfterSizeFields ==
  /\ (pc = "u_bootstub") => BLen(dir["parameter"]) = 8
  /\ (pc = "u_bootstub" /\ HasParameter) =>
       /\ dir["parameter"] = Sub(image, cmdline_start + 1032, 8)
       /\ "parameter" \in written
       /\ pos = cmdline_start + 4096

C8_Witness ==
  /\ pc = "u_bootstub" /\ HasParameter
  /\ dir["parameter"] = ParamBytes
  /\ Cat(kernel_size_buffer, ramdisk_size_buffer) = Cat(LE32(500000), LE32(10000))
  /\ pos = cmdline_start + 4096

\* C9 as stated: a negative probe (0) means no header, nothing written and the
\* stream at 0; a positive probe (1) means a 512-byte hdr artifact and the
\* stream at 512.
C9_NegativeAbsent ==
  (pc = "u_sig" /\ BLen(image) >= 512) =>
    IF hdr_probe = 0
    THEN hdr_size = 0 /\ "hdr" \notin written /\ pos = 0
    ELSE hdr_size = 512 /\ "hdr" \in written /\ pos = 512

\* C9: a positive probe (1) at offset 0 means no header: header size 0, no hdr
\* artifact written and the next regions read from offset 0; a negative probe
\* (0) means the first 512 bytes are written as hdr and the next regions are
\* read from offset 512.  (For a stream of at least 512 bytes.)
C9_PositiveAbsent ==
  (pc = "u_sig" /\ BLen(image) >= 512) =>
    IF hdr_probe = 1
    THEN hdr_size = 0 /\ "hdr" \notin written /\ pos = 0
    ELSE /\ hdr_probe = 0
         /\ hdr_size = 512 /\ "hdr" \in written /\ pos = 512
         /\ dir["hdr"] = Sub(image, 0, 512)

C9_Witness ==
  /\ pc = "u_sig" /\ BLen(image) >= 512
  /\ hdr_probe = 1
  /\ hdr_size = 0 /\ written = {} /\ pos = 0

\* The stream holds the four bytes of every probe of the signature loop.
HasProbes == BLen(image) >= hdr_size + 1028

\* C10 as stated: the signature size is 0, 480, 248 or 296.
C10_Deltas ==
  (pc = "u_cmdline" /\ HasProbes) => sig_size \in {0, 480, 248, 296}

\* C10: the signature size is 0, 480, 728 or 1024, the sums of the deltas
\* tried so far, and 1024 when no probe is positive (as on a build whose
\* isalnum() returns 1 or 8); the sig artifact is that long, and is not
\* written when the size is 0.  (For a stream that holds every probed byte.)
C10_SumsOfDeltas ==
  (pc = "u_cmdline" /\ HasProbes) =>
    /\ sig_size \in {0, 480, 728, 1024}
    /\ libc \in {"mask", "bool"} => sig_size = 1024
    /\ "sig" \in written <=> sig_size > 0
    /\ sig_size > 0 => dir["sig"] = Sub(image, hdr_size, sig_size)
    /\ pos = hdr_size + sig_size

C10_Witness ==
  /\ pc = "u_cmdline" /\ HasProbes
  /\ libc = "table"
  /\ sig_size = 728
  /\ dir["sig"] = Signature(728)

\* The bytes of an image that pack() computes, zeroed: the checksum, the
\* sector count and image type, and the marker at cmdline start + 1040.
Computed(img, start) ==
  memcpy(memcpy(memcpy(img, 7, Fill(1, 0)), 48, Fill(8, 0)), start + 1040, Fill(8, 0))

\* An image with a header, a signature, a NUL-padded cmdline and size fields
\* in range.
WellFormed ==
  /\ layout.cut = -1
  /\ layout.hdr = 512 /\ layout.sig > 0 /\ layout.text < 1024
  /\ layout.kf >= 500000 /\ layout.kf <= 15000000
  /\ layout.rf >= 10000 /\ layout.rf <= 300000000

\* C1: unpack() and then pack() of a well-formed image give back the image,
\* but for the bytes pack() computes.
C1_RoundTrip ==
  (WellFormed /\ Len(done) = 2 /\ done[1].op = "unpack" /\ done[2].op = "pack") =>
    /\ done[1].status = 0 /\ done[2].status = 0
    /\ Computed(image, 512 + layout.sig) = Computed(orig, 512 + layout.sig)

====
